---- MODULE Spec2Model ----
(***************************************************************************)
(* VossTagViewControl (src/VossTagViewControl/index.ts): a PCF control     *)
(* that shows a comma-separated text field as tag chips.                   *)
(*                                                                         *)
(* Encoding of the JavaScript values:                                      *)
(*   - a string is a sequence of UTF-16 code units, each written as a      *)
(*     one-token TLA+ string ("a", ",", " ", ...); "sz" stands for the     *)
(*     single code unit U+00DF, whose upper case is the two units "SS";    *)
(*   - `T | null` is an option: None (<<>>) or Some(x) (<<x>>);            *)
(*   - a number is a record [nan, v]: NaN or the integer v;                *)
(*   - a colour ("#F59F27") and a palette text between braces are written  *)
(*     as one token each, so that only the spaces around them are code     *)
(*     units of their own;                                                 *)
(*   - the hash of getTagColor is a record [hi, lo] of 16-bit halves.      *)
(*                                                                         *)
(* Specifications:                                                         *)
(*   - Spec: the control driven by the host and the user, with a host that *)
(*     does nothing inside notifyOutputChanged;                            *)
(*   - HostSpec: the same with a host that calls getOutputs and updateView *)
(*     inside notifyOutputChanged;                                         *)
(*   - ParseSpec: parseTags and getOutputs alone, on stored texts;         *)
(*   - ColorSpec: getTagColor alone, on tags and colour configurations.    *)
(***************************************************************************)
EXTENDS Integers, Sequences, FiniteSets, TLC

\* ------------------------------------------------------------------ bounds
MaxRawLen == 3
MaxInputLen == 2
MaxTags == 2
MaxNotify == 2
MaxCfg == 1
MaxParseLen == 3

\* ------------------------------------------------------- program constants
DefaultMaxTagLength == 20
DefaultMaxTagsToShow == 10

\* ------------------------------------------------------------ JS encodings
None == <<>>
Some(x) == <<x>>

NaN == [nan |-> TRUE, v |-> 0]
Num(k) == [nan |-> FALSE, v |-> k]

\* ----------------------------------------------------------------- strings
Alphabet == {"a", "B", ","}

Strings(n) == UNION {[1..k -> Alphabet] : k \in 0..n}

Repeat(c, n) == [i \in 1..n |-> c]

\* The strings of S with a space before and after
Padded(S) == {<<" ">> \o s \o <<" ">> : s \in S}

\* The letters A..Z and a..z (code units 65..90 and 97..122), in order
UpperLetters ==
    <<
      "A", "B", "C", "D", "E", "F", "G", "H", "I", "J", "K", "L", "M",
      "N", "O", "P", "Q", "R", "S", "T", "U", "V", "W", "X", "Y", "Z">>

LowerLetters ==
    <<
      "a", "b", "c", "d", "e", "f", "g", "h", "i", "j", "k", "l", "m",
      "n", "o", "p", "q", "r", "s", "t", "u", "v", "w", "x", "y", "z">>

LetterIndex(letters, c) == CHOOSE i \in 1..Len(letters) : letters[i] = c

ToLowerTable ==
    [c \in {UpperLetters[i] : i \in 1..Len(UpperLetters)} |->
        LowerLetters[LetterIndex(UpperLetters, c)]]

ToUpperTable ==
    [c \in {LowerLetters[i] : i \in 1..Len(LowerLetters)} |->
        UpperLetters[LetterIndex(LowerLetters, c)]]

\* String.prototype.toLowerCase / toUpperCase, one code unit at a time
LowerOfChar(c) ==
    IF c \in DOMAIN ToLowerTable THEN <<ToLowerTable[c]>> ELSE <<c>>

UpperOfChar(c) ==
    IF c \in DOMAIN ToUpperTable THEN <<ToUpperTable[c]>>
    ELSE IF c = "sz" THEN <<"S", "S">>
    ELSE <<c>>

RECURSIVE toLowerCase(_)
toLowerCase(s) ==
    IF s = <<>> THEN <<>> ELSE LowerOfChar(Head(s)) \o toLowerCase(Tail(s))

IsWhitespace(c) == c = " "

RECURSIVE trimStart(_)
trimStart(s) ==
    IF s # <<>> /\ IsWhitespace(Head(s)) THEN trimStart(Tail(s)) ELSE s

RECURSIVE trimEnd(_)
trimEnd(s) ==
    IF s # <<>> /\ IsWhitespace(s[Len(s)])
    THEN trimEnd(SubSeq(s, 1, Len(s) - 1))
    ELSE s

trim(s) == trimEnd(trimStart(s))

\* String.prototype.split(","): the pieces between the commas, in order
RECURSIVE SplitFrom(_, _, _)
SplitFrom(s, cur, acc) ==
    IF s = <<>> THEN Append(acc, cur)
    ELSE IF Head(s) = "," THEN SplitFrom(Tail(s), <<>>, Append(acc, cur))
    ELSE SplitFrom(Tail(s), Append(cur, Head(s)), acc)

split(s) == SplitFrom(s, <<>>, <<>>)

\* Array.prototype.join(",")
RECURSIVE join(_)
join(list) ==
    IF list = <<>> THEN <<>>
    ELSE IF Len(list) = 1 THEN list[1]
    ELSE list[1] \o <<",">> \o join(Tail(list))

RECURSIVE MapTrim(_)
MapTrim(list) ==
    IF list = <<>> THEN <<>> ELSE <<trim(Head(list))>> \o MapTrim(Tail(list))

RECURSIVE FilterNonEmpty(_)
FilterNonEmpty(list) ==
    IF list = <<>> THEN <<>>
    ELSE IF Len(Head(list)) > 0
         THEN <<Head(list)>> \o FilterNonEmpty(Tail(list))
         ELSE FilterNonEmpty(Tail(list))

\* ------------------------------------------------------------ configuration
getMaxTagLength(ctx) ==
    LET raw == ctx.maxTagLength
        n == IF raw # None THEN raw[1] ELSE Num(DefaultMaxTagLength)
    IN IF n.nan \/ n.v <= 0 THEN DefaultMaxTagLength ELSE n.v

getMaxTagsToShow(ctx) ==
    LET raw == ctx.maxTagsToShow
        n == IF raw # None THEN raw[1] ELSE Num(DefaultMaxTagsToShow)
    IN IF n.nan \/ n.v <= 0 THEN DefaultMaxTagsToShow ELSE n.v

\* ------------------------------------------------------------ normalisation
\* Mutant of normalizeTagText: the text is not lower-cased before the first
\* character is upper-cased
normalizeTagTextKeepsCase(input) ==
    LET trimmed == trim(input)
    IN IF trimmed = <<>> THEN None
       ELSE Some(UpperOfChar(trimmed[1]) \o Tail(trimmed))

normalizeTagText(input) ==
    LET trimmed == trim(input)
        lower == toLowerCase(trimmed)
    IN IF trimmed = <<>> THEN None
       ELSE Some(UpperOfChar(lower[1]) \o Tail(lower))

\* Mutant of ParseLoop: the length check of line 75 is missing
RECURSIVE ParseLoopKeepsLong(_, _, _, _)
ParseLoopKeepsLong(parts, maxLength, seen, normalized) ==
    IF parts = <<>> THEN normalized
    ELSE LET tag == normalizeTagText(Head(parts))
             rest == Tail(parts)
         IN IF tag = None
            THEN ParseLoopKeepsLong(rest, maxLength, seen, normalized)
            ELSE LET lower == toLowerCase(tag[1])
                 IN IF lower \notin seen
                    THEN ParseLoopKeepsLong(rest, maxLength, seen \cup {lower},
                                            Append(normalized, tag[1]))
                    ELSE ParseLoopKeepsLong(rest, maxLength, seen, normalized)

RECURSIVE ParseLoop(_, _, _, _)
ParseLoop(parts, maxLength, seen, normalized) ==
    IF parts = <<>> THEN normalized
    ELSE LET tag == normalizeTagText(Head(parts))
             rest == Tail(parts)
         IN IF tag = None THEN ParseLoop(rest, maxLength, seen, normalized)
            ELSE IF Len(tag[1]) > maxLength
                 THEN ParseLoop(rest, maxLength, seen, normalized)
            ELSE LET lower == toLowerCase(tag[1])
                 IN IF lower \notin seen
                    THEN ParseLoop(rest, maxLength, seen \cup {lower},
                                   Append(normalized, tag[1]))
                    ELSE ParseLoop(rest, maxLength, seen, normalized)

\* parseTags on the raw value and the maximum length it reads from the context
parseRaw(rawValue, maxLength) ==
    LET raw == IF rawValue # None THEN rawValue[1] ELSE <<>>
        parts == FilterNonEmpty(MapTrim(split(raw)))
    IN ParseLoop(parts, maxLength, {}, <<>>)

\* ------------------------------------------------------------------ colours
\* A JavaScript number too wide for one machine integer of the checker: the
\* value hi * 65536 + lo, with lo in 0..65535 and hi of either sign.
Word == 65536

Norm(hi, lo) == [hi |-> hi + (lo \div Word), lo |-> lo % Word]

\* ToInt32: what "| 0" and the operand conversion of "<<" do
ToInt32(n) == [hi |-> ((n.hi + 32768) % Word) - 32768, lo |-> n.lo]

\* hash << 5
Shl5(n) == ToInt32(Norm(ToInt32(n).hi * 32, ToInt32(n).lo * 32))

Sub(a, b) == Norm(a.hi - b.hi, a.lo - b.lo)

AddInt(a, k) == Norm(a.hi, a.lo + k)

\* Math.abs
MathAbs(n) == IF n.hi < 0 THEN Sub(Norm(0, 0), n) ELSE n

\* The operator % of JavaScript: the result has the sign of the dividend
Remainder(n, m) ==
    LET a == MathAbs(n)
        r == ((a.hi % m) * (Word % m) + (a.lo % m)) % m
    IN IF n.hi < 0 THEN 0 - r ELSE r

\* String.prototype.charCodeAt
CharCodeTable ==
    [c \in {UpperLetters[i] : i \in 1..Len(UpperLetters)} |->
        64 + LetterIndex(UpperLetters, c)]
    @@ [c \in {LowerLetters[i] : i \in 1..Len(LowerLetters)} |->
        96 + LetterIndex(LowerLetters, c)]
    @@ (" " :> 32) @@ ("," :> 44) @@ ("sz" :> 223)

charCodeAt(str, i) == CharCodeTable[str[i]]

\* hash = ((hash << 5) - hash) + tag.charCodeAt(i); hash |= 0
hashStep(hash, code) == ToInt32(AddInt(Sub(Shl5(hash), hash), code))

colorPool ==
    <<<<"#F59F27">>, <<"#0F6CBD">>, <<"#107C10">>, <<"#D13438">>,
      <<"#8C0095">>, <<"#008272">>>>

\* colorPool[i] of a JavaScript array: undefined outside 0..length-1
PoolAt(i) ==
    IF i \in 0..(Len(colorPool) - 1) THEN colorPool[i + 1] ELSE <<"undefined">>

\* Mutant of hashColor: Math.abs is missing
hashColorNoAbs(hash) == PoolAt(Remainder(hash, Len(colorPool)))

\* colorPool[Math.abs(hash) % colorPool.length]
hashColor(hash) == PoolAt(Remainder(MathAbs(hash), Len(colorPool)))

getDefaultColor(ctx) ==
    LET c == ctx.defaultTagColor
    IN IF c # None /\ c[1] # <<>> /\ Len(trim(c[1])) > 0
       THEN trim(c[1])
       ELSE <<"#F59F27">>

useDynamicColors(ctx) == ctx.useDynamicColors = Some(TRUE)

\* The palette texts of the model; a text between braces is one token
PaletteVip == <<"{\"Vip\":\"#FF0000\"}">>
PaletteLowerVip == <<"{\"vip\":\"#00FF00\"}">>
PaletteEmptyVip == <<"{\"Vip\":\"\"}">>
PaletteEmpty == <<"{}">>
PaletteNull == <<"null">>
PaletteBroken == <<"{\"Vip\":">>

Vip == <<"V", "i", "p">>

\* JSON.parse on the palette texts of the model: the object (a function from
\* keys to values), null, or an exception
JSONParse(text) ==
    LET body == trim(text)
    IN CASE body = PaletteVip ->
              [threw |-> FALSE, value |-> Some(Vip :> <<"#FF0000">>)]
         [] body = PaletteLowerVip ->
              [threw |-> FALSE,
               value |-> Some(<<"v", "i", "p">> :> <<"#00FF00">>)]
         [] body = PaletteEmptyVip ->
              [threw |-> FALSE, value |-> Some(Vip :> <<>>)]
         [] body = PaletteEmpty ->
              [threw |-> FALSE, value |-> Some(<<>>)]
         [] body = PaletteNull ->
              [threw |-> FALSE, value |-> None]
         [] OTHER -> [threw |-> TRUE, value |-> None]

getCustomPalette(ctx) ==
    LET raw == ctx.customTagPalette
    IN IF raw = None \/ raw[1] = <<>> \/ Len(trim(raw[1])) = 0 THEN None
       ELSE IF JSONParse(raw[1]).threw THEN None
       ELSE JSONParse(raw[1]).value

\* palette[tag]: the value of the key, undefined (None) when there is none
PaletteGet(palette, tag) ==
    IF tag \in DOMAIN palette[1] THEN Some(palette[1][tag]) ELSE None

\* getTagColor up to the hash loop: the colour it returns before the loop,
\* None when it goes on to hash the tag
colorBeforeHash(tag, ctx) ==
    LET defaultColor == getDefaultColor(ctx)
        palette == getCustomPalette(ctx)
    IN IF ~useDynamicColors(ctx) THEN Some(defaultColor)
       ELSE IF /\ palette # None
               /\ PaletteGet(palette, tag) # None
               /\ PaletteGet(palette, tag)[1] # <<>>
       THEN Some(PaletteGet(palette, tag)[1])
       ELSE None

\* ---------------------------------------------------------------- rendering
Min(a, b) == IF a <= b THEN a ELSE b

\* Mutant of render: "less" is shown whenever the list is expanded
renderLessWhenExpanded(tagList, showAll, error, ctx) ==
    LET isDisabled == ctx.isControlDisabled
        maxToShow == IF showAll THEN Len(tagList) ELSE getMaxTagsToShow(ctx)
        visibleTags == SubSeq(tagList, 1, Min(maxToShow, Len(tagList)))
        hiddenCount == Len(tagList) - Len(visibleTags)
        canCollapse == showAll
    IN [chips |-> visibleTags,
        close |-> ~isDisabled,
        more |-> IF hiddenCount > 0 THEN Some(hiddenCount) ELSE None,
        less |-> canCollapse,
        input |-> ~isDisabled /\ ctx.isVisible,
        error |-> IF error # None /\ ~isDisabled THEN error ELSE None]

\* Mutant of render: the close button is drawn on a disabled control too
renderCloseWhenDisabled(tagList, showAll, error, ctx) ==
    LET isDisabled == ctx.isControlDisabled
        maxToShow == IF showAll THEN Len(tagList) ELSE getMaxTagsToShow(ctx)
        visibleTags == SubSeq(tagList, 1, Min(maxToShow, Len(tagList)))
        hiddenCount == Len(tagList) - Len(visibleTags)
        canCollapse == showAll /\ Len(tagList) > getMaxTagsToShow(ctx)
    IN [chips |-> visibleTags,
        close |-> TRUE,
        more |-> IF hiddenCount > 0 THEN Some(hiddenCount) ELSE None,
        less |-> canCollapse,
        input |-> ~isDisabled /\ ctx.isVisible,
        error |-> IF error # None /\ ~isDisabled THEN error ELSE None]

\* The DOM built by render(), as the description of what it shows: the chips
\* in order, whether each chip has a close button, the "+N" chip, the "less"
\* chip, the text input and the error line.
render(tagList, showAll, error, ctx) ==
    LET isDisabled == ctx.isControlDisabled
        maxToShow == IF showAll THEN Len(tagList) ELSE getMaxTagsToShow(ctx)
        visibleTags == SubSeq(tagList, 1, Min(maxToShow, Len(tagList)))
        hiddenCount == Len(tagList) - Len(visibleTags)
        canCollapse == showAll /\ Len(tagList) > getMaxTagsToShow(ctx)
    IN [chips |-> visibleTags,
        close |-> ~isDisabled,
        more |-> IF hiddenCount > 0 THEN Some(hiddenCount) ELSE None,
        less |-> canCollapse,
        input |-> ~isDisabled /\ ctx.isVisible,
        error |-> IF error # None /\ ~isDisabled THEN error ELSE None]

EmptyContainer ==
    [chips |-> <<>>, close |-> FALSE, more |-> None, less |-> FALSE,
     input |-> FALSE, error |-> None]

\* -------------------------------------------------------------------- state
VARIABLES
    pc,            \* "constructed" until the host calls init, then "ready"
    tags,          \* this.tags
    errorMessage,  \* this.errorMessage
    showAllTags,   \* this.showAllTags
    context,       \* this.context: the fields read again after init/updateView
    view,          \* the content of this.container
    notifyCount,   \* calls of this.notifyOutputChanged made so far
    mutations,     \* history: AddTag/RemoveTag operations that changed the list
    lastAttemptRejected,
                   \* history: the latest AddTag/RemoveTag was an AddTag of a
                   \* text that is too long or already in the list
    inCallback,    \* what the host did inside the latest notifyOutputChanged
                   \* callback: the result of its getOutputs call (None when it
                   \* made none) and whether it called updateView
    probe          \* a helper method under study: its arguments and results

vars ==
    <<pc, tags, errorMessage, showAllTags, context, view, notifyCount,
      mutations, lastAttemptRejected, inCallback, probe>>

\* ------------------------------------------------------------------- inputs
LongTag == Repeat("a", DefaultMaxTagLength)
TooLongTag == Repeat("a", DefaultMaxTagLength + 1)

TypedTexts == Strings(MaxInputLen) \cup Padded(Strings(1)) \cup {LongTag, TooLongTag}

StoredTexts == Strings(MaxRawLen) \cup Padded(Strings(1)) \cup {LongTag, TooLongTag}

\* context.parameters.voss_tags.raw: null or a string
RawValues == {None} \cup {Some(s) : s \in StoredTexts}

\* input.value when Enter is pressed
UserInputs == TypedTexts

MaxTagLengthRaws ==
    {None, Some(NaN), Some(Num(0))} \cup {Some(Num(k)) : k \in 1..MaxCfg}

MaxTagsToShowRaws == {None} \cup {Some(Num(k)) : k \in 1..MaxCfg}

\* parseRaw is pure: its values on the inputs of the model, computed once
ParseCache ==
    [r \in RawValues |->
        [m \in MaxTagLengthRaws |->
            parseRaw(r, getMaxTagLength([maxTagLength |-> m]))]]

parseTags(ctx) == ParseCache[ctx.raw][ctx.maxTagLength]

Contexts ==
    [raw : RawValues,
     maxTagLength : MaxTagLengthRaws,
     maxTagsToShow : MaxTagsToShowRaws,
     isControlDisabled : BOOLEAN,
     isVisible : BOOLEAN]

\* What this.context is read for once init/updateView has parsed the raw value
Retained(c) ==
    [maxTagLength |-> c.maxTagLength,
     maxTagsToShow |-> c.maxTagsToShow,
     isControlDisabled |-> c.isControlDisabled,
     isVisible |-> c.isVisible]

Undefined ==
    [maxTagLength |-> None, maxTagsToShow |-> None,
     isControlDisabled |-> TRUE, isVisible |-> FALSE]

\* The host has not been notified yet
Idle == [read |-> None, refreshed |-> FALSE]

\* The fields of a control the host has constructed and not yet initialised
Constructed ==
    /\ pc = "constructed"
    /\ tags = <<>>
    /\ errorMessage = None
    /\ showAllTags = FALSE
    /\ context = Undefined
    /\ view = EmptyContainer
    /\ notifyCount = 0
    /\ mutations = 0
    /\ lastAttemptRejected = FALSE
    /\ inCallback = Idle

Init == Constructed /\ probe = None

\* ------------------------------------------------------------------ actions
init(c) ==
    /\ pc = "constructed"
    /\ pc' = "ready"
    /\ context' = Retained(c)
    /\ tags' = parseTags(c)
    /\ showAllTags' = FALSE
    /\ view' = render(tags', showAllTags', errorMessage, context')
    /\ UNCHANGED <<errorMessage, notifyCount, mutations, lastAttemptRejected,
                   inCallback, probe>>

\* Mutant of collapseIfFits: collapses only when the count is below the limit
collapseIfFewer(c) ==
    IF showAllTags /\ Len(parseTags(c)) < getMaxTagsToShow(c) THEN FALSE
    ELSE showAllTags

\* updateView: this.showAllTags after the automatic collapse
collapseIfFits(c) ==
    IF showAllTags /\ Len(parseTags(c)) <= getMaxTagsToShow(c) THEN FALSE
    ELSE showAllTags

\* Mutant of updateView: the refresh also clears the error message
updateViewClearsError(c) ==
    /\ pc = "ready"
    /\ context' = Retained(c)
    /\ tags' = parseTags(c)
    /\ showAllTags' = collapseIfFits(c)
    /\ errorMessage' = None
    /\ view' = render(tags', showAllTags', errorMessage', context')
    /\ UNCHANGED <<pc, notifyCount, mutations, lastAttemptRejected, inCallback, probe>>

updateView(c) ==
    /\ pc = "ready"
    /\ context' = Retained(c)
    /\ tags' = parseTags(c)
    /\ showAllTags' = collapseIfFits(c)
    /\ view' = render(tags', showAllTags', errorMessage, context')
    /\ UNCHANGED <<pc, errorMessage, notifyCount, mutations, lastAttemptRejected,
                   inCallback, probe>>

\* Mutant of pushChanges: renders without notifying the host
pushChangesWithoutNotify(newTags, newError) ==
    /\ notifyCount' = notifyCount
    /\ view' = render(newTags, showAllTags, newError, context)

\* pushChanges(): notify the host, then render
pushChanges(newTags, newError) ==
    /\ notifyCount' = notifyCount + 1
    /\ view' = render(newTags, showAllTags, newError, context)

\* Mutant of Exists: the stored tag is compared without lower-casing it
ExistsCaseSensitive(tagList, lower) ==
    \E i \in 1..Len(tagList) : tagList[i] = lower

Exists(tagList, lower) ==
    \E i \in 1..Len(tagList) : toLowerCase(tagList[i]) = lower

\* Mutant of TooLongMessage: the default maximum is printed, not the one in force
TooLongMessageDefault(maxLength) ==
    "Tag is too long! Maximum " \o ToString(DefaultMaxTagLength) \o " characters."

TooLongMessage(maxLength) ==
    "Tag is too long! Maximum " \o ToString(maxLength) \o " characters."

AlreadyExistsMessage == "Tag already exists."

\* The maximum tag length a configuration asks for: the configured one when it
\* is a positive number, 20 otherwise
MaxTagLengthOf(ctx) ==
    IF /\ ctx.maxTagLength # None
       /\ ~ctx.maxTagLength[1].nan
       /\ ctx.maxTagLength[1].v > 0
    THEN ctx.maxTagLength[1].v
    ELSE 20

\* The same for the number of chips shown while collapsed, 10 otherwise
MaxTagsToShowOf(ctx) ==
    IF /\ ctx.maxTagsToShow # None
       /\ ~ctx.maxTagsToShow[1].nan
       /\ ctx.maxTagsToShow[1].v > 0
    THEN ctx.maxTagsToShow[1].v
    ELSE 10

EffectiveMaxTagLength == MaxTagLengthOf(context)

EffectiveMaxTagsToShow == MaxTagsToShowOf(context)

\* The user's text, normalized, is longer than the maximum in force
IsTooLong(rawInput) ==
    /\ normalizeTagText(rawInput) # None
    /\ Len(normalizeTagText(rawInput)[1]) > EffectiveMaxTagLength

\* The user's text, normalized, equals a tag of the list up to case
IsDuplicate(rawInput) ==
    /\ normalizeTagText(rawInput) # None
    /\ \E i \in 1..Len(tags) :
          toLowerCase(tags[i]) = toLowerCase(normalizeTagText(rawInput)[1])

\* Mutant of addTagFromInput: the new tag is put first (unshift for push)
addTagFromInputPrepends(rawInput) ==
    /\ pc = "ready"
    /\ view.input
    /\ notifyCount < MaxNotify
    /\ Len(tags) < MaxTags
    /\ LET maxLength == getMaxTagLength(context)
           normalized == normalizeTagText(rawInput)
       IN IF normalized = None
          THEN /\ errorMessage' = None
               /\ view' = render(tags, showAllTags, None, context)
               /\ UNCHANGED <<tags, notifyCount>>
          ELSE IF Len(normalized[1]) > maxLength
          THEN /\ errorMessage' = Some(TooLongMessage(maxLength))
               /\ view' = render(tags, showAllTags, errorMessage', context)
               /\ UNCHANGED <<tags, notifyCount>>
          ELSE IF Exists(tags, toLowerCase(normalized[1]))
          THEN /\ errorMessage' = Some(AlreadyExistsMessage)
               /\ view' = render(tags, showAllTags, errorMessage', context)
               /\ UNCHANGED <<tags, notifyCount>>
          ELSE /\ errorMessage' = None
               /\ tags' = <<normalized[1]>> \o tags
               /\ pushChanges(tags', None)
    /\ mutations' = IF tags' # tags THEN mutations + 1 ELSE mutations
    /\ lastAttemptRejected' = (IsTooLong(rawInput) \/ IsDuplicate(rawInput))
    /\ UNCHANGED <<pc, showAllTags, context, inCallback, probe>>

\* input.onkeydown with Enter: exists only while the input is rendered
addTagFromInput(rawInput) ==
    /\ pc = "ready"
    /\ view.input
    /\ notifyCount < MaxNotify
    /\ Len(tags) < MaxTags
    /\ LET maxLength == getMaxTagLength(context)
           normalized == normalizeTagText(rawInput)
       IN IF normalized = None
          THEN /\ errorMessage' = None
               /\ view' = render(tags, showAllTags, None, context)
               /\ UNCHANGED <<tags, notifyCount>>
          ELSE IF Len(normalized[1]) > maxLength
          THEN /\ errorMessage' = Some(TooLongMessage(maxLength))
               /\ view' = render(tags, showAllTags, errorMessage', context)
               /\ UNCHANGED <<tags, notifyCount>>
          ELSE IF Exists(tags, toLowerCase(normalized[1]))
          THEN /\ errorMessage' = Some(AlreadyExistsMessage)
               /\ view' = render(tags, showAllTags, errorMessage', context)
               /\ UNCHANGED <<tags, notifyCount>>
          ELSE /\ errorMessage' = None
               /\ tags' = Append(tags, normalized[1])
               /\ pushChanges(tags', None)
    /\ mutations' = IF tags' # tags THEN mutations + 1 ELSE mutations
    /\ lastAttemptRejected' = (IsTooLong(rawInput) \/ IsDuplicate(rawInput))
    /\ UNCHANGED <<pc, showAllTags, context, inCallback, probe>>

\* Mutant of FilterOut: the stored tag is compared without lower-casing it
RECURSIVE FilterOutCaseSensitive(_, _)
FilterOutCaseSensitive(tagList, lower) ==
    IF tagList = <<>> THEN <<>>
    ELSE IF Head(tagList) # lower
         THEN <<Head(tagList)>> \o FilterOutCaseSensitive(Tail(tagList), lower)
         ELSE FilterOutCaseSensitive(Tail(tagList), lower)

RECURSIVE FilterOut(_, _)
FilterOut(tagList, lower) ==
    IF tagList = <<>> THEN <<>>
    ELSE IF toLowerCase(Head(tagList)) # lower
         THEN <<Head(tagList)>> \o FilterOut(Tail(tagList), lower)
         ELSE FilterOut(Tail(tagList), lower)

\* close.onclick of a rendered chip
removeTag(tag) ==
    /\ pc = "ready"
    /\ view.close
    /\ \E i \in 1..Len(view.chips) : view.chips[i] = tag
    /\ notifyCount < MaxNotify
    /\ tags' = FilterOut(tags, toLowerCase(tag))
    /\ errorMessage' = None
    /\ pushChanges(tags', None)
    /\ mutations' = mutations + 1
    /\ lastAttemptRejected' = FALSE
    /\ UNCHANGED <<pc, showAllTags, context, inCallback, probe>>

\* getOutputs().voss_tags
getOutputs == join(tags)

\* moreChip.onclick / onkeydown: exists only while the "+N" chip is rendered
Expand ==
    /\ pc = "ready"
    /\ view.more # None
    /\ showAllTags' = TRUE
    /\ view' = render(tags, TRUE, errorMessage, context)
    /\ UNCHANGED <<pc, tags, errorMessage, context, notifyCount, mutations,
                   lastAttemptRejected, inCallback, probe>>

\* collapseChip.onclick / onkeydown: exists only while "less" is rendered
Collapse ==
    /\ pc = "ready"
    /\ view.less
    /\ showAllTags' = FALSE
    /\ view' = render(tags, FALSE, errorMessage, context)
    /\ UNCHANGED <<pc, tags, errorMessage, context, notifyCount, mutations,
                   lastAttemptRejected, inCallback, probe>>

Next ==
    \/ \E c \in Contexts : init(c)
    \/ \E c \in Contexts : updateView(c)
    \/ \E x \in UserInputs : addTagFromInput(x)
    \/ \E t \in {tags[i] : i \in 1..Len(tags)} : removeTag(t)
    \/ Expand
    \/ Collapse

Spec == Init /\ [][Next]_vars

\* --------------------------------------------- parseTags / getOutputs alone
\* parseTags, join(",") and parseTags again on a stored text, one call at a
\* time: probe holds the arguments and what each call returned.
ParseAlphabet == {"a", "B", "S", ",", " ", "sz"}

ScenarioA ==
    <<"T", "e", "s", "t", ",", "V", "i", "p", ",", "v", "i", "p", ",",
      "A", "n", "o", "t", "h", "e", "r">>

ParseTexts ==
    UNION {[1..k -> ParseAlphabet] : k \in 0..MaxParseLen}
        \cup {ScenarioA, LongTag, TooLongTag}

ParseMaxTagLengths ==
    {None, Some(Num(1)), Some(Num(2)), Some(Num(DefaultMaxTagLength))}

ParseProbes ==
    [method : {"parseTags"},
     raw : {Some(t) : t \in ParseTexts},
     maxTagLength : ParseMaxTagLengths,
     pos : {"called"},
     parsed : {<<>>},
     output : {<<>>},
     reparsed : {<<>>}]

controlVars ==
    <<pc, tags, errorMessage, showAllTags, context, view, notifyCount,
      mutations, lastAttemptRejected, inCallback>>

InitParse == Constructed /\ probe \in ParseProbes

\* this.parseTags(context) on the stored text
ParseCall ==
    /\ probe.pos = "called"
    /\ probe' = [probe EXCEPT
                    !.pos = "parsed",
                    !.parsed = parseRaw(probe.raw, getMaxTagLength(probe))]
    /\ UNCHANGED controlVars

\* getOutputs() on the parsed list
SerializeCall ==
    /\ probe.pos = "parsed"
    /\ probe' = [probe EXCEPT !.pos = "serialized",
                              !.output = join(probe.parsed)]
    /\ UNCHANGED controlVars

\* this.parseTags(context) on the text the host stored from getOutputs()
ReparseCall ==
    /\ probe.pos = "serialized"
    /\ probe' = [probe EXCEPT
                    !.pos = "reparsed",
                    !.reparsed = parseRaw(Some(probe.output),
                                          getMaxTagLength(probe))]
    /\ UNCHANGED controlVars

NextParse ==
    \/ ParseCall
    \/ SerializeCall
    \/ ReparseCall

ParseSpec == InitParse /\ [][NextParse]_vars

\* ------------------------------------------------------- getTagColor alone
\* The tags of the model: what normalizeTagText returns for short texts, the
\* tags of the examples, and a tag whose hash is -2^31
MinHashTag == <<"L", "t", "d", "m", "d", "t", "a">>

ColorTags ==
    {normalizeTagText(t)[1] :
        t \in UNION {[1..k -> {"a", "B"}] : k \in 1..MaxParseLen}}
      \cup {Vip, <<"O", "t", "h", "e", "r">>, MinHashTag, LongTag, <<"sz">>}

DefaultTagColorRaws ==
    {None, Some(<<>>), Some(<<" ">>), Some(<<"#00FF00">>),
     Some(<<" ", "#00FF00", " ">>)}

UseDynamicColorsRaws == {None, Some(FALSE), Some(TRUE)}

CustomTagPaletteRaws ==
    {None, Some(<<>>), Some(<<" ">>), Some(PaletteBroken), Some(PaletteNull),
     Some(PaletteEmpty), Some(PaletteVip), Some(<<" ">> \o PaletteVip),
     Some(PaletteLowerVip), Some(PaletteEmptyVip)}

ColorProbes ==
    [method : {"getTagColor"},
     tag : ColorTags,
     defaultTagColor : DefaultTagColorRaws,
     useDynamicColors : UseDynamicColorsRaws,
     customTagPalette : CustomTagPaletteRaws,
     pos : {"called"},
     i : {0},
     hash : {Norm(0, 0)},
     color : {<<>>}]

InitColor == Constructed /\ probe \in ColorProbes

\* chip.style.backgroundColor = this.getTagColor(tag), up to "let hash = 0"
ColorCall ==
    /\ probe.pos = "called"
    /\ LET early == colorBeforeHash(probe.tag, probe)
       IN IF early # None
          THEN probe' = [probe EXCEPT !.pos = "returned", !.color = early[1]]
          ELSE probe' = [probe EXCEPT !.pos = "hashing", !.i = 0,
                                      !.hash = Norm(0, 0)]
    /\ UNCHANGED controlVars

\* One turn of the for loop
HashIteration ==
    /\ probe.pos = "hashing"
    /\ probe.i < Len(probe.tag)
    /\ probe' = [probe EXCEPT
                    !.i = probe.i + 1,
                    !.hash = hashStep(probe.hash,
                                      charCodeAt(probe.tag, probe.i + 1))]
    /\ UNCHANGED controlVars

\* The loop has ended: return colorPool[Math.abs(hash) % colorPool.length]
HashReturn ==
    /\ probe.pos = "hashing"
    /\ ~(probe.i < Len(probe.tag))
    /\ probe' = [probe EXCEPT !.pos = "returned",
                              !.color = hashColor(probe.hash)]
    /\ UNCHANGED controlVars

NextColor ==
    \/ ColorCall
    \/ HashIteration
    \/ HashReturn

ColorSpec == InitColor /\ [][NextColor]_vars

\* ------------------------------------------- a host that calls back at once
\* notifyOutputChanged is the host's function: inside it the host may call
\* getOutputs() and then updateView(c) before it returns to pushChanges.
HostRawValues == {None, Some(<<"a">>), Some(<<"a", ",", "B">>)}

HostContexts ==
    [raw : HostRawValues,
     maxTagLength : {None},
     maxTagsToShow : MaxTagsToShowRaws,
     isControlDisabled : BOOLEAN,
     isVisible : BOOLEAN]

HostInputs == {<<>>, <<"a">>, <<"B">>, <<" ", "a", " ">>, TooLongTag}

HostReactions ==
    [read : BOOLEAN, refresh : {None} \cup {Some(c) : c \in HostContexts}]

\* Mutant of NotifiedOutput: the host is notified before the list is changed
NotifiedOutputStale(oldTags, newTags) == join(oldTags)

\* getOutputs() called inside the callback: this.tags was changed at line 305
\* or 311, before pushChanges calls notifyOutputChanged at line 318
NotifiedOutput(oldTags, newTags) == join(newTags)

\* Mutant of pushChangesReentered: this.render() of line 320 is missing
pushChangesReenteredNoRender(newTags, r) ==
    /\ notifyCount' = notifyCount + 1
    /\ inCallback' =
         [read |-> IF r.read THEN Some(NotifiedOutput(tags, newTags)) ELSE None,
          refreshed |-> r.refresh # None]
    /\ tags' = IF r.refresh # None THEN parseTags(r.refresh[1]) ELSE newTags
    /\ context' = IF r.refresh # None THEN Retained(r.refresh[1]) ELSE context
    /\ showAllTags' =
         IF r.refresh # None THEN collapseIfFits(r.refresh[1]) ELSE showAllTags
    /\ view' = IF r.refresh # None
               THEN render(tags', showAllTags', None, context')
               ELSE view

\* pushChanges() with this.tags = newTags and this.errorMessage = null: the
\* callback runs the host's reaction r (getOutputs, then updateView with its
\* own render), and render() is called when the callback has returned
pushChangesReentered(newTags, r) ==
    /\ notifyCount' = notifyCount + 1
    /\ inCallback' =
         [read |-> IF r.read THEN Some(NotifiedOutput(tags, newTags)) ELSE None,
          refreshed |-> r.refresh # None]
    /\ tags' = IF r.refresh # None THEN parseTags(r.refresh[1]) ELSE newTags
    /\ context' = IF r.refresh # None THEN Retained(r.refresh[1]) ELSE context
    /\ showAllTags' =
         IF r.refresh # None THEN collapseIfFits(r.refresh[1]) ELSE showAllTags
    /\ view' = render(tags', showAllTags', None, context')

addTagFromInputReentered(rawInput, r) ==
    /\ pc = "ready"
    /\ view.input
    /\ notifyCount < MaxNotify
    /\ Len(tags) < MaxTags
    /\ LET maxLength == getMaxTagLength(context)
           normalized == normalizeTagText(rawInput)
       IN IF normalized = None
          THEN /\ errorMessage' = None
               /\ view' = render(tags, showAllTags, None, context)
               /\ UNCHANGED <<tags, notifyCount, showAllTags, context,
                              inCallback, mutations>>
          ELSE IF Len(normalized[1]) > maxLength
          THEN /\ errorMessage' = Some(TooLongMessage(maxLength))
               /\ view' = render(tags, showAllTags, errorMessage', context)
               /\ UNCHANGED <<tags, notifyCount, showAllTags, context,
                              inCallback, mutations>>
          ELSE IF Exists(tags, toLowerCase(normalized[1]))
          THEN /\ errorMessage' = Some(AlreadyExistsMessage)
               /\ view' = render(tags, showAllTags, errorMessage', context)
               /\ UNCHANGED <<tags, notifyCount, showAllTags, context,
                              inCallback, mutations>>
          ELSE /\ errorMessage' = None
               /\ pushChangesReentered(Append(tags, normalized[1]), r)
               /\ mutations' = mutations + 1
    /\ lastAttemptRejected' = (IsTooLong(rawInput) \/ IsDuplicate(rawInput))
    /\ UNCHANGED <<pc, probe>>

removeTagReentered(tag, r) ==
    /\ pc = "ready"
    /\ view.close
    /\ \E i \in 1..Len(view.chips) : view.chips[i] = tag
    /\ notifyCount < MaxNotify
    /\ errorMessage' = None
    /\ pushChangesReentered(FilterOut(tags, toLowerCase(tag)), r)
    /\ mutations' = mutations + 1
    /\ lastAttemptRejected' = FALSE
    /\ UNCHANGED <<pc, probe>>

NextHost ==
    \/ \E c \in HostContexts : init(c)
    \/ \E c \in HostContexts : updateView(c)
    \/ \E x \in HostInputs, r \in HostReactions : addTagFromInputReentered(x, r)
    \/ \E t \in {tags[i] : i \in 1..Len(tags)}, r \in HostReactions :
          removeTagReentered(t, r)
    \/ Expand
    \/ Collapse

HostSpec == Init /\ [][NextHost]_vars

TypeOK ==
    /\ pc \in {"constructed", "ready"}
    /\ showAllTags \in BOOLEAN
    /\ notifyCount \in 0..MaxNotify
    /\ Len(tags) <= MaxTags

\* ===================================================================== claims

\* C1: for every tag list the component can hold, parsing the string returned
\* by getOutputs with the same maxTagLength yields the list again
\* (parse(serialize(t), maxTagLength) = t).
C1_RoundTrip ==
    pc = "ready" => parseRaw(Some(getOutputs), getMaxTagLength(context)) = tags

\* C2: in every reachable state no two entries of the tag list are equal under
\* case-insensitive comparison.
C2_NoDuplicates ==
    \A i, j \in 1..Len(tags) :
        i # j => toLowerCase(tags[i]) # toLowerCase(tags[j])

C2_Witness ==
    /\ Len(tags) >= 2
    /\ mutations >= 1
    /\ errorMessage = Some(AlreadyExistsMessage)

\* C3: in every reachable state every tag is non-empty and no longer than the
\* maxTagLength of the most recently supplied configuration (20 when the option
\* is absent, not a number or not positive).
C3_LengthBound ==
    pc = "ready" =>
        \A i \in 1..Len(tags) :
            Len(tags[i]) >= 1 /\ Len(tags[i]) <= EffectiveMaxTagLength

C3_Witness ==
    /\ context.maxTagLength = Some(NaN)
    /\ \E i \in 1..Len(tags) : Len(tags[i]) = 20
    /\ errorMessage = Some("Tag is too long! Maximum 20 characters.")

\* C4: an AddTag whose normalized text is too long, or equals an existing tag
\* case-insensitively, leaves the tag list, the output string and the expanded
\* flag unchanged, sends no notification, and sets the error message to
\* "Tag is too long! Maximum {max} characters." or "Tag already exists.".
C4_RejectedAdd ==
    [][(pc = "ready" /\ context' = context) =>
         \A x \in UserInputs :
            (addTagFromInput(x) /\ (IsTooLong(x) \/ IsDuplicate(x))) =>
                /\ tags' = tags
                /\ join(tags') = join(tags)
                /\ showAllTags' = showAllTags
                /\ notifyCount' = notifyCount
                /\ errorMessage' =
                     IF IsTooLong(x)
                     THEN Some("Tag is too long! Maximum "
                               \o ToString(EffectiveMaxTagLength)
                               \o " characters.")
                     ELSE Some("Tag already exists.")]_vars

C4_Witness ==
    /\ lastAttemptRejected
    /\ errorMessage = Some("Tag is too long! Maximum 1 characters.")
    /\ view.error = errorMessage
    /\ tags # <<>>
    /\ notifyCount = 0

\* C5: the data-changed notification is invoked exactly once for each
\* successful AddTag and each RemoveTag and by nothing else: the number of
\* notifications always equals the number of successful Add/Remove operations.
C5_NotifyOncePerMutation == notifyCount = mutations

C5_Witness ==
    /\ mutations >= 2
    /\ showAllTags
    /\ Len(tags) = 1

\* C6: after every completed operation, expanded = true implies that the tag
\* count is greater than maxTagsToShow, whichever operation lowered the count.
C6_ExpandedImpliesOverLimit ==
    pc = "ready" => (showAllTags => Len(tags) > EffectiveMaxTagsToShow)

\* What updateView stores as the tag list is the parse of the raw value it is
\* given, under the maximum length it is given
RefreshParsesNewValue ==
    \A c \in Contexts : parseTags(c) = parseRaw(c.raw, MaxTagLengthOf(c))

C8_Render ==
    pc = "ready" =>
        LET n == Len(tags)
            limit == EffectiveMaxTagsToShow
        IN /\ view.chips =
                IF showAllTags THEN tags
                ELSE [i \in 1..(IF n < limit THEN n ELSE limit) |-> tags[i]]
           /\ (view.more # None) <=> (~showAllTags /\ n - limit > 0)
           /\ view.more # None => view.more = Some(n - limit)
           /\ view.less <=> (showAllTags /\ n > limit)
           /\ ~(view.more # None /\ view.less)

C8_Witness ==
    /\ showAllTags
    /\ ~view.less
    /\ view.more = None
    /\ Len(view.chips) = 1
    /\ EffectiveMaxTagsToShow = 1

\* C9: the error message is non-null exactly when the most recent AddTag or
\* RemoveTag was an AddTag rejected as too long or duplicate; init, refresh,
\* Expand and Collapse leave it as it is.
C9_ErrorIffRejected == (errorMessage # None) <=> lastAttemptRejected

C9_Witness ==
    /\ errorMessage = Some("Tag is too long! Maximum 1 characters.")
    /\ context.maxTagLength = None
    /\ Len(tags) = 2

\* C10: no tag held in the tag list contains a comma, so the output of a
\* non-empty list has exactly (tag count - 1) commas.
C10_NoCommaInTags ==
    /\ \A i \in 1..Len(tags) : \A k \in 1..Len(tags[i]) : tags[i][k] # ","
    /\ tags # <<>> =>
         Cardinality({k \in 1..Len(getOutputs) : getOutputs[k] = ","})
            = Len(tags) - 1


\* C11: parsing is idempotent through serialization: for every stored text s
\* and maximum length L, parse(serialize(parse(s, L)), L) = parse(s, L).
C11_ParseIdempotent ==
    (probe # None /\ probe.method = "parseTags" /\ probe.pos = "reparsed") =>
        probe.reparsed = probe.parsed

\* The pieces of s between its commas
CommaPositions(s) == {i \in 1..Len(s) : s[i] = ","}

NthComma(s, k) ==
    IF k = 0 THEN 0
    ELSE IF k > Cardinality(CommaPositions(s)) THEN Len(s) + 1
    ELSE CHOOSE i \in CommaPositions(s) :
            Cardinality({j \in CommaPositions(s) : j <= i}) = k

Piece(s, k) == SubSeq(s, NthComma(s, k - 1) + 1, NthComma(s, k) - 1)

\* p without the spaces at its two ends
Stripped(p) ==
    LET inked == {i \in 1..Len(p) : p[i] # " "}
    IN IF inked = {} THEN <<>>
       ELSE SubSeq(p, CHOOSE i \in inked : \A j \in inked : i <= j,
                      CHOOSE i \in inked : \A j \in inked : i >= j)

\* Sentence case: first character upper case, the others lower case
SentenceCased(t) == UpperOfChar(t[1]) \o toLowerCase(Tail(t))

ExpectedTags(s, maxLength) ==
    LET n == Cardinality(CommaPositions(s)) + 1
        piece(k) == Stripped(Piece(s, k))
        kept == {k \in 1..n :
                    /\ piece(k) # <<>>
                    /\ Len(SentenceCased(piece(k))) <= maxLength
                    /\ \A j \in 1..(k - 1) :
                          piece(j) # <<>> =>
                             toLowerCase(SentenceCased(piece(j)))
                                # toLowerCase(SentenceCased(piece(k)))}
    IN [i \in 1..Cardinality(kept) |->
           SentenceCased(piece(CHOOSE k \in kept :
                                  Cardinality({j \in kept : j <= k}) = i))]

\* C12: parse returns, in encounter order, the sentence-cased form of each
\* comma-separated piece that is non-empty after trimming and no longer than
\* maxTagLength, keeping only the first of the pieces that are equal
\* case-insensitively ("Test,Vip,vip,Another" with 20 gives Test, Vip,
\* Another; "" gives the empty list).  Length and equality up to case are
\* those of the sentence-cased forms.
C12_ParseResult ==
    (probe # None /\ probe.method = "parseTags" /\ probe.pos # "called") =>
        /\ probe.parsed = ExpectedTags(probe.raw[1], MaxTagLengthOf(probe))
        /\ probe.raw[1] = ScenarioA /\ MaxTagLengthOf(probe) = 20 =>
              probe.parsed = <<<<"T", "e", "s", "t">>, <<"V", "i", "p">>,
                               <<"A", "n", "o", "t", "h", "e", "r">>>>
        /\ probe.raw[1] = <<>> => probe.parsed = <<>>

C12_Witness ==
    /\ probe # None
    /\ probe.method = "parseTags"
    /\ probe.pos = "parsed"
    /\ probe.raw = Some(ScenarioA)
    /\ Len(probe.parsed) = 3

\* The default colour a configuration asks for: the configured text without
\* the spaces around it, #F59F27 when it is absent or blank
DefaultTagColorOf(cfg) ==
    IF cfg.defaultTagColor = None \/ Stripped(cfg.defaultTagColor[1]) = <<>>
    THEN <<"#F59F27">>
    ELSE Stripped(cfg.defaultTagColor[1])

\* The entries of the custom palette of a configuration, as a function from
\* keys to colours; no entry when the text is absent, blank or not an object
PaletteOf(cfg) ==
    IF cfg.customTagPalette = None THEN <<>>
    ELSE IF Stripped(cfg.customTagPalette[1]) = <<>> THEN <<>>
    ELSE IF JSONParse(cfg.customTagPalette[1]).value = None THEN <<>>
    ELSE JSONParse(cfg.customTagPalette[1]).value[1]

PoolColors == {colorPool[k] : k \in 1..Len(colorPool)}

\* C13: colorFor follows a fixed precedence: when useDynamicColors is false it
\* returns defaultTagColor whatever the tag and the palette; otherwise, when
\* the custom palette has a key equal to the tag text (case-sensitively), it
\* returns that entry's colour whatever the entry's value; otherwise it
\* returns one of the 6 colours of the fixed pool.
C13_ColorPrecedence ==
    (probe # None /\ probe.method = "getTagColor" /\ probe.pos = "returned") =>
        IF probe.useDynamicColors # Some(TRUE)
        THEN probe.color = DefaultTagColorOf(probe)
        ELSE IF probe.tag \in DOMAIN PaletteOf(probe)
        THEN probe.color = PaletteOf(probe)[probe.tag]
        ELSE probe.color \in PoolColors

\* A 32-bit signed integer as one machine integer, and back
IntOf(n) == n.hi * 65536 + n.lo

\* (h * 31 + code) wrapped to 32 bits, signed
ExpectedStep(h, code) ==
    LET low == (h % 65536) * 31 + code
        high == ((h \div 65536) * 31 + (low \div 65536)) % 65536
    IN (IF high >= 32768 THEN high - 65536 ELSE high) * 65536 + (low % 65536)

\* |h| mod 6
AbsMod6(h) == IF h >= 0 THEN h % 6 ELSE (6 - (h % 6)) % 6

\* C14: the hash-derived colour index is |h| mod 6, where h is folded over the
\* character codes as h := (h * 31 + code) wrapped to a 32-bit signed integer
\* at each step, starting from 0; the index is in 0..5 (also for h = -2^31) and
\* depends only on the string, so a tag always gets the same pool colour.
C14_HashIndex ==
    [][(probe # None /\ probe.method = "getTagColor") =>
         /\ (probe.pos = "called" /\ probe'.pos = "hashing") =>
               IntOf(probe'.hash) = 0 /\ probe'.i = 0
         /\ (probe.pos = "hashing" /\ probe'.pos = "hashing") =>
               /\ probe'.i = probe.i + 1
               /\ IntOf(probe'.hash) =
                    ExpectedStep(IntOf(probe.hash),
                                 CharCodeTable[probe.tag[probe'.i]])
         /\ (probe.pos = "hashing" /\ probe'.pos = "returned") =>
               /\ probe.i = Len(probe.tag)
               /\ AbsMod6(IntOf(probe.hash)) \in 0..5
               /\ probe'.color = colorPool[AbsMod6(IntOf(probe.hash)) + 1]]_vars

C14_Witness ==
    /\ probe # None
    /\ probe.method = "getTagColor"
    /\ probe.pos = "returned"
    /\ probe.tag = MinHashTag
    /\ IntOf(probe.hash) = (0 - 2147483647) - 1
    /\ probe.color = <<"#107C10">>

\* C15: a successful AddTag(x) (normalized x non-empty, within maxTagLength,
\* not a duplicate up to case) changes the tag list to the old list with
\* normalize(x) appended as its last element; the existing tags keep their
\* values and positions and the expanded flag is unchanged, so under collapse
\* with the limit already reached the new tag is hidden and the "+N" count
\* grows by one.
C15_AddAppends ==
    [][(pc = "ready" /\ context' = context /\ notifyCount' # notifyCount) =>
         \A x \in UserInputs :
            (/\ addTagFromInput(x)
             /\ Stripped(x) # <<>>
             /\ ~IsTooLong(x)
             /\ ~IsDuplicate(x)) =>
                /\ Len(tags') = Len(tags) + 1
                /\ tags'[Len(tags')] = SentenceCased(toLowerCase(Stripped(x)))
                /\ \A i \in 1..Len(tags) : tags'[i] = tags[i]
                /\ showAllTags' = showAllTags
                /\ (~showAllTags /\ Len(tags) >= EffectiveMaxTagsToShow) =>
                      /\ view'.chips = view.chips
                      /\ \A i \in 1..Len(view'.chips) :
                            view'.chips[i] # tags'[Len(tags')]
                      /\ view'.more =
                            Some(Len(tags) - EffectiveMaxTagsToShow + 1)
                      /\ view.more # None =>
                            view'.more = Some(view.more[1] + 1)]_vars

C15_Witness ==
    /\ tags = <<<<"B">>, <<"A", ",">>>>
    /\ ~showAllTags
    /\ view.chips = <<<<"B">>>>
    /\ view.more = Some(1)
    /\ notifyCount = 1

C19_DisabledReadOnly ==
    [][(pc = "ready" /\ context.isControlDisabled) =>
         /\ ~view.close
         /\ ~view.input
         /\ view.error = None
         /\ \A x \in UserInputs : ~ENABLED addTagFromInput(x)
         /\ \A t \in {tags[i] : i \in 1..Len(tags)} : ~ENABLED removeTag(t)
         /\ (tags' # tags \/ join(tags') # join(tags)) =>
               /\ notifyCount' = notifyCount
               /\ mutations' = mutations
               /\ errorMessage' = errorMessage
               /\ lastAttemptRejected' = lastAttemptRejected
         /\ (~showAllTags /\ Len(tags) > EffectiveMaxTagsToShow) =>
               ENABLED Expand
         /\ (showAllTags /\ Len(tags) > EffectiveMaxTagsToShow) =>
               ENABLED Collapse]_vars

C19_Witness ==
    /\ pc = "ready"
    /\ context.isControlDisabled
    /\ errorMessage = Some(AlreadyExistsMessage)
    /\ showAllTags
    /\ view.less
    /\ view.error = None
    /\ Len(tags) = 2

\* The outputs a successful AddTag or a RemoveTag can leave behind
OutputsAfterMutation ==
    {join(tags \o <<SentenceCased(toLowerCase(Stripped(x)))>>) :
        x \in {y \in HostInputs : Stripped(y) # <<>>}}
      \cup {join([k \in 1..(Len(tags) - 1) |->
                    IF k < i THEN tags[k] ELSE tags[k + 1]]) :
              i \in 1..Len(tags)}

\* C17: the data-changed notification of a successful AddTag or a RemoveTag is
\* delivered only after the tag list has been changed: getOutputs called by
\* the host inside the callback returns the serialized list after the
\* mutation, never the one before it.
C17_NotifyAfterMutation ==
    [][(notifyCount' # notifyCount /\ inCallback'.read # None) =>
         /\ inCallback'.read[1] # join(tags)
         /\ inCallback'.read[1] \in OutputsAfterMutation
         /\ ~inCallback'.refreshed => inCallback'.read[1] = join(tags')]_vars

C17_Witness ==
    /\ notifyCount = 2
    /\ inCallback = [read |-> Some(<<"B">>), refreshed |-> FALSE]
    /\ tags = <<<<"B">>>>
    /\ view.chips = tags

\* What the renderer shows for the current tag list, expanded flag, error
\* message and configuration
ExpectedView ==
    LET n == Len(tags)
        limit == EffectiveMaxTagsToShow
        editable == ~context.isControlDisabled
    IN [chips |-> IF showAllTags \/ n <= limit THEN tags
                  ELSE SubSeq(tags, 1, limit),
        close |-> editable,
        more |-> IF ~showAllTags /\ n > limit THEN Some(n - limit) ELSE None,
        less |-> showAllTags /\ n > limit,
        input |-> editable /\ context.isVisible,
        error |-> IF editable THEN errorMessage ELSE None]

\* C18: after every operation (init, refresh, successful, rejected or empty
\* AddTag, RemoveTag, Expand, Collapse) the displayed view is the render of
\* the current tag list, expanded flag, error message and configuration, also
\* when the host calls getOutputs or refresh from inside the notification
\* callback.
C18_ViewIsRender == pc = "ready" => view = ExpectedView

C18_Witness ==
    /\ inCallback = [read |-> Some(<<"B">>), refreshed |-> TRUE]
    /\ tags = <<<<"A">>>>
    /\ ~showAllTags
    /\ notifyCount = 1
    /\ view.chips = tags

====
